---------------------------- MODULE Spec2Model ----------------------------
(***************************************************************************)
(* A model of nessus2csv.py: parse_nessus_file (namespace detection, the   *)
(* host-then-item traversal, cm_text, the flat fallback), and main (input  *)
(* discovery, the per-file loop, the CSV writer).                          *)
(* After it, csv2word.py and csv2word_v2.py: the compliance table the Word *)
(* document gets from the rows of the CSV.                                 *)
(*                                                                         *)
(* Text is a sequence of one-character strings, so that strip, lower,      *)
(* html.unescape and the substring test act on characters.  Python's None  *)
(* is the value None below, which is no text.  Element and attribute names *)
(* and the 28 column names are never taken apart by the code and are plain *)
(* strings.                                                                *)
(***************************************************************************)
EXTENDS Integers, Sequences, FiniteSets, TLC

(***************************************************************************)
(* Bounds of the model.                                                    *)
(***************************************************************************)
\* nodes of a document of the structure family (root included)
MaxNodes == 4
\* pieces a text of the text families is put together from
MaxPieces == 3
\* entries of a directory of the batch family
MaxFiles == 3
\* tag elements under a host of the host family
MaxTags == 2
\* lines of a CSV file of the renderer family
MaxCsvRows == 2

(***************************************************************************)
(* Python values.                                                          *)
(***************************************************************************)
None == <<"<None>">>

EmptyStr == <<>>

\* Python truthiness of a str-or-None value
Truthy(x) == x # None /\ x # EmptyStr

\* `x or y`
Or(x, y) == IF Truthy(x) THEN x ELSE y

\* the characters str.strip() removes, among those the model's texts hold
Whitespace == {" ", "\t", "\n", "\r", "\f"}

RECURSIVE LStrip(_)
LStrip(s) ==
    IF s # <<>> /\ Head(s) \in Whitespace THEN LStrip(Tail(s)) ELSE s

RECURSIVE RStrip(_)
RStrip(s) ==
    IF s # <<>> /\ s[Len(s)] \in Whitespace
    THEN RStrip(SubSeq(s, 1, Len(s) - 1))
    ELSE s

\* a plausible slip: only the left end is trimmed
StripLeftOnly(s) == LStrip(s)

\* str.strip()
Strip(s) == RStrip(LStrip(s))

UpperChars ==
    <<"A","B","C","D","E","F","G","H","I","J","K","L","M",
      "N","O","P","Q","R","S","T","U","V","W","X","Y","Z">>

LowerChars ==
    <<"a","b","c","d","e","f","g","h","i","j","k","l","m",
      "n","o","p","q","r","s","t","u","v","w","x","y","z">>

LowerChar(c) ==
    IF \E i \in DOMAIN UpperChars : UpperChars[i] = c
    THEN LowerChars[CHOOSE i \in DOMAIN UpperChars : UpperChars[i] = c]
    ELSE c

\* str.lower()
Lower(s) == [i \in DOMAIN s |-> LowerChar(s[i])]

\* `m in s` for strings
Contains(s, m) ==
    \E i \in 1..(Len(s) - Len(m) + 1) : SubSeq(s, i, i + Len(m) - 1) = m

(***************************************************************************)
(* html.unescape: re.sub over                                              *)
(*   &(#[0-9]+;?|#[xX][0-9a-fA-F]+;?|[^\t\n\f <&#;]{1,32};?)               *)
(* with replace_charref.  The model's texts hold no x or X, so the         *)
(* hexadecimal alternative never matches and is left out; the html5 table  *)
(* is cut down to the names the model's texts can spell.                   *)
(***************************************************************************)
Digits == <<"0","1","2","3","4","5","6","7","8","9">>

\* One element of a text that stands for 4301 characters "9" in a row: a
\* number too long for int(), which since Python 3.11 (and the security
\* releases of 3.7 to 3.10) refuses a string of more than 4300 digits.
LongDigits == "9{4301}"

IsDigit(c) == c = LongDigits \/ \E i \in DOMAIN Digits : Digits[i] = c

DigitVal(c) == (CHOOSE i \in DOMAIN Digits : Digits[i] = c) - 1

\* characters that end a named reference: [^\t\n\f <&#;]
NameStop == {"\t", "\n", "\f", " ", "<", "&", "#", ";"}

\* length of the run of digits s starts with
RECURSIVE DigitRun(_)
DigitRun(s) ==
    IF s # <<>> /\ IsDigit(Head(s)) THEN 1 + DigitRun(Tail(s)) ELSE 0

\* length of the run of name characters s starts with, at most `left`.  The
\* run ends inside a LongDigits element, which is longer than any `left`;
\* the digits the regex would still take are no part of an html5 name, so
\* replace_charref gives them back unchanged, as does ending before them.
RECURSIVE NameRun(_, _)
NameRun(s, left) ==
    IF s # <<>> /\ left > 0 /\ Head(s) \notin NameStop /\ Head(s) # LongDigits
    THEN 1 + NameRun(Tail(s), left - 1)
    ELSE 0

\* 1 when s[n+1] is the optional ";" of the reference, else 0
OptSemi(s, n) == IF Len(s) > n /\ s[n + 1] = ";" THEN 1 ELSE 0

\* Length of the regex's group 1 at the start of s (s is the text after an
\* "&"); 0 when the regex does not match there.
CharrefLen(s) ==
    IF s = <<>> THEN 0
    ELSE IF Head(s) = "#"
         THEN LET d == DigitRun(Tail(s))
              IN  IF d = 0 THEN 0 ELSE 1 + d + OptSemi(s, 1 + d)
         ELSE LET n == NameRun(s, 32)
              IN  IF n = 0 THEN 0 ELSE n + OptSemi(s, n)

HasLongDigits(ds) == \E i \in DOMAIN ds : ds[i] = LongDigits

\* int(ds) where int() accepts ds; a number of more than 4300 digits is
\* above 0x10FFFF, whatever it is, and is given as 0x110000
RECURSIVE DecimalValue(_)
DecimalValue(ds) ==
    IF ds = <<>> THEN 0
    ELSE IF HasLongDigits(ds) THEN 1114112
    ELSE 10 * DecimalValue(SubSeq(ds, 1, Len(ds) - 1)) + DigitVal(ds[Len(ds)])

\* chr(num) for the code points the model's texts can spell, after
\* replace_charref's own filters; chr of any other code point is written as
\* the replacement character "?"
Chr(num) ==
    CASE num = 9  -> <<"\t">>
      [] num = 32 -> <<" ">>
      [] num = 38 -> <<"&">>
      [] num = 60 -> <<"<">>
      [] OTHER    -> <<"?">>

\* html.entities.html5, the entries the model's texts can spell
Html5Names == { <<"a","m","p">>, <<"a","m","p",";">>, <<"l","t">>, <<"l","t",";">> }

Html5(name) == IF name[1] = "a" THEN <<"&">> ELSE <<"<">>

\* the longest proper prefix s[:x], len(s)-1 >= x >= 2, that html5 names
PrefixLens(s) == { x \in 2..(Len(s) - 1) : SubSeq(s, 1, x) \in Html5Names }

MaxOf(S) == CHOOSE x \in S : \A y \in S : y <= x

\* replace_charref(s), s being the regex's group 1
ReplaceCharref(s) ==
    IF Head(s) = "#"
    THEN LET ds == IF s[Len(s)] = ";" THEN SubSeq(s, 2, Len(s) - 1)
                   ELSE SubSeq(s, 2, Len(s))
         IN  Chr(DecimalValue(ds))
    ELSE IF s \in Html5Names THEN Html5(s)
    ELSE IF PrefixLens(s) # {}
         THEN LET x == MaxOf(PrefixLens(s))
              IN  Html5(SubSeq(s, 1, x)) \o SubSeq(s, x + 1, Len(s))
         ELSE <<"&">> \o s

RECURSIVE UnescapeAll(_)
UnescapeAll(s) ==
    IF s = <<>> THEN <<>>
    ELSE IF Head(s) # "&" THEN <<Head(s)>> \o UnescapeAll(Tail(s))
    ELSE LET n == CharrefLen(Tail(s))
         IN  IF n = 0 THEN <<"&">> \o UnescapeAll(Tail(s))
             ELSE ReplaceCharref(SubSeq(s, 2, n + 1))
                    \o UnescapeAll(SubSeq(s, n + 2, Len(s)))

\* replace_charref(s) raises ValueError: int() refuses the digits
CharrefRaises(s) == Head(s) = "#" /\ HasLongDigits(s)

\* html.unescape(s) raises, where int() has the limit of 4300 digits
RECURSIVE UnescapeRaises(_)
UnescapeRaises(s) ==
    IF s = <<>> THEN FALSE
    ELSE IF Head(s) # "&" THEN UnescapeRaises(Tail(s))
    ELSE LET n == CharrefLen(Tail(s))
         IN  IF n = 0 THEN UnescapeRaises(Tail(s))
             ELSE \/ CharrefRaises(SubSeq(s, 2, n + 1))
                  \/ UnescapeRaises(SubSeq(s, n + 2, Len(s)))

\* a plausible slip: the text is returned without decoding
UnescapeNothing(s) == s

\* html.unescape(s)
Unescape(s) == UnescapeAll(s)

(***************************************************************************)
(* xml.etree.ElementTree.  A document is the sequence of its elements in   *)
(* document order; an element is                                           *)
(*   [parent |-> index of its parent (0 for the root),                     *)
(*    uri    |-> the namespace URI of its tag "{uri}tag", None without one,*)
(*    tag    |-> the local name,                                           *)
(*    attrs  |-> its attributes, a function from names to texts,           *)
(*    text   |-> elem.text: a text, or None for an element without text].  *)
(***************************************************************************)
Elem(p, u, t, a, x) == [parent |-> p, uri |-> u, tag |-> t, attrs |-> a, text |-> x]

NoAttrs == <<>>

\* elem.get(name)
Get(e, name) == IF name \in DOMAIN e.attrs THEN e.attrs[name] ELSE None

\* a plausible slip: the attribute as read, None when absent
AttrRaw(e, name) == Get(e, name)

\* `elem.get(name) or ""`
AttrOrEmpty(e, name) == Or(Get(e, name), EmptyStr)

RECURSIVE IsAncestor(_, _, _)
IsAncestor(doc, a, d) ==
    /\ d # 0
    /\ doc[d].parent # 0
    /\ \/ doc[d].parent = a
       \/ IsAncestor(doc, a, doc[d].parent)

Indices(doc) == [i \in 1..Len(doc) |-> i]

\* the element's tag is "{uri}tag", or the bare "tag" when uri is None
HasTag(e, uri, tag) == e.uri = uri /\ e.tag = tag

\* elem.findall(".//tag"): the proper descendants so named, in document order
FindAll(doc, e, uri, tag) ==
    SelectSeq(Indices(doc),
              LAMBDA i : IsAncestor(doc, e, i) /\ HasTag(doc[i], uri, tag))

\* elem.iter(tag): the element itself and its descendants so named
Iter(doc, e, uri, tag) ==
    SelectSeq(Indices(doc),
              LAMBDA i : (i = e \/ IsAncestor(doc, e, i)) /\ HasTag(doc[i], uri, tag))

\* the direct children so named, in document order
ChildrenNamed(doc, e, uri, tag) ==
    SelectSeq(Indices(doc),
              LAMBDA i : doc[i].parent = e /\ HasTag(doc[i], uri, tag))

\* elem.findtext(tag): the first such child's text ("" when it has none),
\* None when there is no such child
FindText(doc, e, uri, tag) ==
    LET cs == ChildrenNamed(doc, e, uri, tag)
    IN  IF cs = <<>> THEN None ELSE Or(doc[cs[1]].text, EmptyStr)

\* elem.find(".//tag"): the first such descendant, 0 for None
Find(doc, e, uri, tag) ==
    LET ds == FindAll(doc, e, uri, tag)
    IN  IF ds = <<>> THEN 0 ELSE ds[1]

(***************************************************************************)
(* parse_nessus_file, lines 23-36: the compliance namespace.               *)
(***************************************************************************)
MarkerNessusCm == <<"n","e","s","s","u","s",".","o","r","g","/","c","m">>

MarkerCompliance == <<"c","o","m","p","l","i","a","n","c","e">>

DefaultCm ==
    <<"h","t","t","p",":","/","/","w","w","w",".">> \o MarkerNessusCm

IsCmUri(uri) == Contains(uri, MarkerNessusCm) \/ Contains(uri, MarkerCompliance)

\* a plausible slip: the first matching URI is kept, not the last
RECURSIVE ScanNsFirst(_, _, _)
ScanNsFirst(doc, i, cur) ==
    IF i > Len(doc) THEN cur
    ELSE IF cur = None /\ doc[i].uri # None /\ IsCmUri(doc[i].uri)
         THEN ScanNsFirst(doc, i + 1, doc[i].uri)
         ELSE ScanNsFirst(doc, i + 1, cur)

\* the loop over root.iter(): nsmap["cm"] after elements i.. are seen
RECURSIVE ScanNs(_, _, _)
ScanNs(doc, i, cur) ==
    IF i > Len(doc) THEN cur
    ELSE IF doc[i].uri # None /\ IsCmUri(doc[i].uri)
         THEN ScanNs(doc, i + 1, doc[i].uri)
         ELSE ScanNs(doc, i + 1, cur)

\* nsmap["cm"] after nsmap.setdefault("cm", ...)
ResolveNs(doc) ==
    LET found == ScanNs(doc, 1, None)
    IN  IF found = None THEN DefaultCm ELSE found

(***************************************************************************)
(* parse_nessus_file, lines 38-44 and 62: the severity label.              *)
(***************************************************************************)
SeverityMap ==
    << <<"0", <<"I","n","f","o">> >>,
       <<"1", <<"L","o","w">> >>,
       <<"2", <<"M","e","d","i","u","m">> >>,
       <<"3", <<"H","i","g","h">> >>,
       <<"4", <<"C","r","i","t","i","c","a","l">> >> >>

Unknown == <<"U","n","k","n","o","w","n">>

\* a plausible slip: an unmapped code is labelled Unknown, not kept
SeverityTextUnknown(code) ==
    IF \E i \in DOMAIN SeverityMap : <<SeverityMap[i][1]>> = code
    THEN SeverityMap[CHOOSE i \in DOMAIN SeverityMap : <<SeverityMap[i][1]>> = code][2]
    ELSE Unknown

\* severity_map.get(code, code if code else "Unknown")
SeverityText(code) ==
    IF \E i \in DOMAIN SeverityMap : <<SeverityMap[i][1]>> = code
    THEN SeverityMap[CHOOSE i \in DOMAIN SeverityMap : <<SeverityMap[i][1]>> = code][2]
    ELSE IF Truthy(code) THEN code ELSE Unknown

(***************************************************************************)
(* parse_nessus_file, lines 46-54: the host's address.                     *)
(***************************************************************************)
HostIpKey == <<"h","o","s","t","-","i","p">>

\* the loop over host.findall(".//tag"), with its break
RECURSIVE FirstHostIpTag(_, _)
FirstHostIpTag(doc, tags) ==
    IF tags = <<>> THEN EmptyStr
    ELSE IF Get(doc[Head(tags)], "name") = HostIpKey /\ Truthy(doc[Head(tags)].text)
         THEN doc[Head(tags)].text
         ELSE FirstHostIpTag(doc, Tail(tags))

\* a plausible slip: the name attribute alone, without the fallback
HostIpNameOnly(doc, host) == Or(Get(doc[host], "name"), EmptyStr)

HostIp(doc, host) ==
    LET ip == Or(Get(doc[host], "name"), EmptyStr)
    IN  IF ip = EmptyStr
        THEN FirstHostIpTag(doc, FindAll(doc, host, None, "tag"))
        ELSE ip

(***************************************************************************)
(* parse_nessus_file, lines 69-80: cm_text.                                *)
(***************************************************************************)
\* a plausible slip: the unqualified child is tried before the qualified one
CmLookupUnqualifiedFirst(doc, item, cm, tagname) ==
    LET t1 == FindText(doc, item, None, tagname)
        t2 == IF t1 = None THEN FindText(doc, item, cm, tagname) ELSE t1
        e  == Find(doc, item, cm, tagname)
    IN  IF t2 = None /\ e # 0 /\ Truthy(doc[e].text) THEN doc[e].text ELSE t2

\* `text` when line 80 is reached: the three lookups
CmLookup(doc, item, cm, tagname) ==
    LET t1 == FindText(doc, item, cm, tagname)
        t2 == IF t1 = None THEN FindText(doc, item, None, tagname) ELSE t1
        e  == Find(doc, item, cm, tagname)
    IN  IF t2 = None /\ e # 0 /\ Truthy(doc[e].text) THEN doc[e].text ELSE t2

\* line 80
CmText(doc, item, cm, tagname) ==
    LET text == CmLookup(doc, item, cm, tagname)
    IN  IF Truthy(text) THEN Unescape(Strip(text)) ELSE EmptyStr

\* line 80 raises
CmTextRaises(doc, item, cm, tagname) ==
    LET text == CmLookup(doc, item, cm, tagname)
    IN  Truthy(text) /\ UnescapeRaises(Strip(text))

S_true == <<"t","r","u","e">>

S_false == <<"f","a","l","s","e">>

\* a plausible slip: the text is compared without trimming
IsComplianceNoStrip(doc, item) ==
    Lower(Or(FindText(doc, item, None, "compliance"), EmptyStr)) = S_true

\* line 82
IsCompliance(doc, item) ==
    Lower(Strip(Or(FindText(doc, item, None, "compliance"), EmptyStr))) = S_true

(***************************************************************************)
(* The rows.  A row (a dict) is the sequence of its <<key, value>> pairs   *)
(* in insertion order.                                                     *)
(***************************************************************************)
\* main, lines 237-251
Fieldnames ==
    << "IP Address",
       "Port",
       "Protocol",
       "Service",
       "Plugin ID",
       "Plugin Name",
       "Plugin Family",
       "Severity",
       "Risk Factor",
       "Is Compliance Item",
       "Compliance Result",
       "Compliance Check Name",
       "Compliance Check ID",
       "Compliance Policy Value",
       "Compliance Actual Value",
       "Compliance Solution",
       "Compliance Info",
       "Compliance Reference",
       "Compliance Benchmark Name",
       "Compliance Benchmark Version",
       "Compliance Benchmark Profile",
       "Compliance Full ID",
       "Compliance Control ID",
       "Compliance See Also",
       "Compliance Source",
       "Compliance Audit File",
       "Compliance Functional ID",
       "Compliance Informational ID" >>

\* the compliance columns and the elements cm_text reads them from
\* (lines 83-100 and 113-130)
CmFields ==
    << <<"Compliance Result", "compliance-result">>,
       <<"Compliance Check Name", "compliance-check-name">>,
       <<"Compliance Check ID", "compliance-check-id">>,
       <<"Compliance Policy Value", "compliance-policy-value">>,
       <<"Compliance Actual Value", "compliance-actual-value">>,
       <<"Compliance Solution", "compliance-solution">>,
       <<"Compliance Info", "compliance-info">>,
       <<"Compliance Reference", "compliance-reference">>,
       <<"Compliance Benchmark Name", "compliance-benchmark-name">>,
       <<"Compliance Benchmark Version", "compliance-benchmark-version">>,
       <<"Compliance Benchmark Profile", "compliance-benchmark-profile">>,
       <<"Compliance Full ID", "compliance-full-id">>,
       <<"Compliance Control ID", "compliance-control-id">>,
       <<"Compliance See Also", "compliance-see-also">>,
       <<"Compliance Source", "compliance-source">>,
       <<"Compliance Audit File", "compliance-audit-file">>,
       <<"Compliance Functional ID", "compliance-functional-id">>,
       <<"Compliance Informational ID", "compliance-informational-id">> >>

\* lines 113-130: the compliance columns of a row of the primary path
CmPairs(doc, item, cm) ==
    [i \in 1..Len(CmFields) |-> <<CmFields[i][1], CmText(doc, item, cm, CmFields[i][2])>>]

\* lines 155-172: the compliance columns of a row of the flat fallback
EmptyCmPairs == [i \in 1..Len(CmFields) |-> <<CmFields[i][1], EmptyStr>>]

\* lines 58 and 139
PluginName(doc, item) ==
    Or(Or(Get(doc[item], "pluginName"), FindText(doc, item, None, "plugin_name")),
       EmptyStr)

\* lines 66 and 153
RiskFactor(doc, item) ==
    Strip(Or(FindText(doc, item, None, "risk_factor"), EmptyStr))

\* lines 57-132: the row of one item under one host
PrimaryRow(doc, ip, item, cm) ==
    << <<"IP Address", ip>>,
       <<"Port", AttrOrEmpty(doc[item], "port")>>,
       <<"Protocol", AttrOrEmpty(doc[item], "protocol")>>,
       <<"Service", AttrOrEmpty(doc[item], "svc_name")>>,
       <<"Plugin ID", AttrOrEmpty(doc[item], "pluginID")>>,
       <<"Plugin Name", PluginName(doc, item)>>,
       <<"Plugin Family", AttrOrEmpty(doc[item], "pluginFamily")>>,
       <<"Severity", SeverityText(AttrOrEmpty(doc[item], "severity"))>>,
       <<"Risk Factor", RiskFactor(doc, item)>>,
       <<"Is Compliance Item", IF IsCompliance(doc, item) THEN S_true ELSE S_false>> >>
    \o CmPairs(doc, item, cm)

\* a plausible slip: the items are the host's direct children only
HostItemsChildren(doc, host) == ChildrenNamed(doc, host, None, "ReportItem")

\* line 56: host.findall(".//ReportItem")
HostItems(doc, host) == FindAll(doc, host, None, "ReportItem")

\* lines 47-132 for one host
HostRows(doc, host, cm) ==
    LET ip    == HostIp(doc, host)
        items == HostItems(doc, host)
    IN  [j \in 1..Len(items) |-> PrimaryRow(doc, ip, items[j], cm)]

RECURSIVE RowsOfHosts(_, _, _)
RowsOfHosts(doc, hosts, cm) ==
    IF hosts = <<>> THEN <<>>
    ELSE HostRows(doc, Head(hosts), cm) \o RowsOfHosts(doc, Tail(hosts), cm)

\* lines 46-132: rows when the loop over report_hosts ends
PrimaryRows(doc, cm) == RowsOfHosts(doc, FindAll(doc, 1, None, "ReportHost"), cm)

\* lines 46-132: a cm_text call of the loop raises
PrimaryRaises(doc, cm) ==
    LET hosts == FindAll(doc, 1, None, "ReportHost")
    IN  \E h \in DOMAIN hosts :
          LET items == HostItems(doc, hosts[h])
          IN  \E i \in DOMAIN items, f \in DOMAIN CmFields :
                CmTextRaises(doc, items[i], cm, CmFields[f][2])

\* a plausible slip: the hosts are searched below the root only, as the
\* traversal of line 46 does
FlatIpsBelowRoot(doc) ==
    LET hs == FindAll(doc, 1, None, "ReportHost")
    IN  [i \in 1..Len(hs) |-> Or(Get(doc[hs[i]], "name"), EmptyStr)]

\* line 136
FlatIps(doc) ==
    LET hs == Iter(doc, 1, None, "ReportHost")
    IN  [i \in 1..Len(hs) |-> Or(Get(doc[hs[i]], "name"), EmptyStr)]

\* lines 139-173: the row of the idx-th item (idx counts from 0)
FlatRow(doc, ips, idx, it) ==
    << <<"IP Address", IF idx < Len(ips) THEN ips[idx + 1] ELSE EmptyStr>>,
       <<"Port", AttrOrEmpty(doc[it], "port")>>,
       <<"Protocol", AttrOrEmpty(doc[it], "protocol")>>,
       <<"Service", AttrOrEmpty(doc[it], "svc_name")>>,
       <<"Plugin ID", AttrOrEmpty(doc[it], "pluginID")>>,
       <<"Plugin Name", PluginName(doc, it)>>,
       <<"Plugin Family", AttrOrEmpty(doc[it], "pluginFamily")>>,
       <<"Severity", SeverityText(AttrOrEmpty(doc[it], "severity"))>>,
       <<"Risk Factor", RiskFactor(doc, it)>>,
       <<"Is Compliance Item", S_false>> >>
    \o EmptyCmPairs

\* a plausible slip: the items are those below the root, the root left out
FlatItemsBelowRoot(doc) == FindAll(doc, 1, None, "ReportItem")

\* line 137: list(root.iter("ReportItem"))
FlatItems(doc) == Iter(doc, 1, None, "ReportItem")

\* lines 136-173: the rows of the flat fallback
FlatRows(doc) ==
    LET ips   == FlatIps(doc)
        items == FlatItems(doc)
    IN  [n \in 1..Len(items) |-> FlatRow(doc, ips, n - 1, items[n])]

\* row[key]
Field(row, key) == row[CHOOSE i \in DOMAIN row : row[i][1] = key][2]

Keys(row) == [i \in DOMAIN row |-> row[i][1]]

\* csv.DictWriter.writerow: the values in the order of fieldnames, a key the
\* row lacks written as restval ""
CsvLine(row) ==
    [i \in DOMAIN Fieldnames |->
        IF \E n \in DOMAIN row : row[n][1] = Fieldnames[i]
        THEN Field(row, Fieldnames[i])
        ELSE EmptyStr]

(***************************************************************************)
(* collect_nessus_inputs.  The input path is                               *)
(*   [exists |-> os.path.exists, isfile |-> os.path.isfile,                *)
(*    name |-> the path, recursive |-> --recursive,                        *)
(*    entries |-> the files below a directory, in os.walk order, each      *)
(*                [name, sub (in a subdirectory), file]; for a single file *)
(*                the file itself].                                        *)
(* A file is [wellformed |-> etree.parse succeeds, nodes |-> its document].*)
(***************************************************************************)
NessusExt == <<".","n","e","s","s","u","s">>

\* s.endswith(suffix)
EndsWith(s, suffix) ==
    /\ Len(s) >= Len(suffix)
    /\ SubSeq(s, Len(s) - Len(suffix) + 1, Len(s)) = suffix

\* name.lower().endswith(".nessus")
IsNessusName(name) == EndsWith(Lower(name), NessusExt)

\* lines 191-202: the entries a directory yields
DirMatches(inp) ==
    SelectSeq(inp.entries,
              LAMBDA e : (inp.recursive \/ ~e.sub) /\ IsNessusName(e.name))

\* collect_nessus_inputs raises (lines 183, 189, 205)
CollectRaises(inp) ==
    \/ ~inp.exists
    \/ inp.isfile /\ ~IsNessusName(inp.name)
    \/ ~inp.isfile /\ DirMatches(inp) = <<>>

\* the list collect_nessus_inputs returns, as the files' contents
Collected(inp) ==
    LET es == IF inp.isfile THEN inp.entries ELSE DirMatches(inp)
    IN  [i \in 1..Len(es) |-> es[i].file]

(***************************************************************************)
(* main and parse_nessus_file as a state machine.                          *)
(***************************************************************************)
VARIABLES
    input,       \* the path given with --input
    pc,          \* main: "collect", "loop", "done" (returned), "exit1" (sys.exit(1)),
                 \* "crash" (ended by an exception no handler caught);
                 \* "off" where only a renderer runs
    files,       \* main's `files`, each as the content of the file
    k,           \* the file the loop of line 257 is at (1-based)
    fstate,      \* per file: "unparsed", "parsed", "namespace-resolved",
                 \* "rows-emitted", "parse-failed", "zero-rows"
    via,         \* per file: which part built its rows: "none", "primary", "fallback"
    tree,        \* parse_nessus_file's document (`root`)
    cm,          \* nsmap["cm"]
    phase,       \* parse_nessus_file: "idle", or "primary-done" at line 134
    rows,        \* parse_nessus_file's `rows`, then main's
    j,           \* rows of the current file written so far
    opened,      \* the output file has been opened
    out,         \* the lines written to the output file
    total_rows,  \* main's total_rows
    diag,        \* number of "[!] ..." diagnostics on stderr
    report,      \* the final "[+] Wrote ..." line: <<rows, files>>; <<>> before
    tool,        \* the renderer run: "csv2word", "csv2word_v2", or "none"
    csv,         \* the CSV the renderer reads: [fieldnames, rows]
    wpc,         \* the renderer's main: "off", "start", "table", "saved", "error"
    table        \* the data rows of the compliance table, each its cells' texts

wordvars == <<tool, csv, wpc, table>>

vars == <<input, pc, files, k, fstate, via, tree, cm, phase, rows, j, opened,
          out, total_rows, diag, report, wordvars>>

\* no renderer runs
NoRender ==
    /\ tool = "none"
    /\ csv = [fieldnames |-> <<>>, rows |-> <<>>]
    /\ wpc = "off"
    /\ table = <<>>

InitWith(Inputs) ==
    /\ input \in Inputs
    /\ pc = "collect"
    /\ files = <<>>
    /\ k = 0
    /\ fstate = <<>>
    /\ via = <<>>
    /\ tree = <<>>
    /\ cm = None
    /\ phase = "idle"
    /\ rows = <<>>
    /\ j = 0
    /\ opened = FALSE
    /\ out = <<>>
    /\ total_rows = 0
    /\ diag = 0
    /\ report = <<>>
    /\ NoRender

\* lines 231-235, the except branch
CollectFails ==
    /\ pc = "collect"
    /\ CollectRaises(input)
    /\ pc' = "exit1"
    /\ diag' = diag + 1
    /\ UNCHANGED <<input, files, k, fstate, via, tree, cm, phase, rows, j,
                   opened, out, total_rows, report,
                   wordvars>>

\* lines 231-256: the list is collected, the output opened, the header written
CollectInputs ==
    /\ pc = "collect"
    /\ ~CollectRaises(input)
    /\ files' = Collected(input)
    /\ fstate' = [i \in 1..Len(Collected(input)) |-> "unparsed"]
    /\ via' = [i \in 1..Len(Collected(input)) |-> "none"]
    /\ opened' = TRUE
    /\ out' = <<Fieldnames>>
    /\ total_rows' = 0
    /\ k' = 1
    /\ pc' = "loop"
    /\ UNCHANGED <<input, tree, cm, phase, rows, j, diag, report,
                   wordvars>>

InFile == pc = "loop" /\ k <= Len(files)

\* lines 15-18: etree.parse succeeds
ParseOk ==
    /\ InFile
    /\ fstate[k] = "unparsed"
    /\ files[k].wellformed
    /\ rows' = <<>>
    /\ tree' = files[k].nodes
    /\ fstate' = [fstate EXCEPT ![k] = "parsed"]
    /\ UNCHANGED <<input, pc, files, k, via, cm, phase, j, opened, out,
                   total_rows, diag, report,
                   wordvars>>

\* a plausible slip: the exception is not caught and ends the run
ParseFailAborts ==
    /\ InFile
    /\ fstate[k] = "unparsed"
    /\ ~files[k].wellformed
    /\ rows' = <<>>
    /\ diag' = diag + 1
    /\ fstate' = [fstate EXCEPT ![k] = "parse-failed"]
    /\ pc' = "exit1"
    /\ UNCHANGED <<input, files, k, via, tree, cm, phase, j, opened, out,
                   total_rows, report,
                   wordvars>>

\* lines 15-20: etree.parse raises
ParseFail ==
    /\ InFile
    /\ fstate[k] = "unparsed"
    /\ ~files[k].wellformed
    /\ rows' = <<>>
    /\ diag' = diag + 1
    /\ fstate' = [fstate EXCEPT ![k] = "parse-failed"]
    /\ UNCHANGED <<input, pc, files, k, via, tree, cm, phase, j, opened, out,
                   total_rows, report,
                   wordvars>>

\* line 21: return rows
ReturnEmpty ==
    /\ InFile
    /\ fstate[k] = "parse-failed"
    /\ fstate' = [fstate EXCEPT ![k] = "zero-rows"]
    /\ UNCHANGED <<input, pc, files, k, via, tree, cm, phase, rows, j, opened,
                   out, total_rows, diag, report,
                   wordvars>>

\* lines 23-36
ResolveNamespace ==
    /\ InFile
    /\ fstate[k] = "parsed"
    /\ cm' = ResolveNs(tree)
    /\ fstate' = [fstate EXCEPT ![k] = "namespace-resolved"]
    /\ UNCHANGED <<input, pc, files, k, via, tree, phase, rows, j, opened, out,
                   total_rows, diag, report,
                   wordvars>>

\* lines 46-132
PrimaryPass ==
    /\ InFile
    /\ fstate[k] = "namespace-resolved"
    /\ phase = "idle"
    /\ rows' = PrimaryRows(tree, cm)
    /\ phase' = "primary-done"
    /\ UNCHANGED <<input, pc, files, k, fstate, via, tree, cm, j, opened, out,
                   total_rows, diag, report,
                   wordvars>>

\* lines 46-132 where html.unescape raises: the ValueError is caught
\* nowhere, the interpreter prints the traceback and ends the run.  Where
\* int() has no limit the loop ends as in PrimaryPass.
PrimaryCrash ==
    /\ InFile
    /\ fstate[k] = "namespace-resolved"
    /\ phase = "idle"
    /\ PrimaryRaises(tree, cm)
    /\ pc' = "crash"
    /\ UNCHANGED <<input, files, k, fstate, via, tree, cm, phase, rows, j,
                   opened, out, total_rows, diag, report,
                   wordvars>>

\* a plausible slip: the test of line 135 is left out, the fallback's rows
\* are added to whatever the loop over the hosts gave
FlatFallbackAlways ==
    /\ InFile
    /\ phase = "primary-done"
    /\ rows' = rows \o FlatRows(tree)
    /\ phase' = "idle"
    /\ via' = [via EXCEPT ![k] = "fallback"]
    /\ fstate' = [fstate EXCEPT ![k] = "rows-emitted"]
    /\ UNCHANGED <<input, pc, files, k, tree, cm, j, opened, out, total_rows,
                   diag, report,
                   wordvars>>

\* line 135 with rows empty; lines 136-175
FlatFallback ==
    /\ InFile
    /\ phase = "primary-done"
    /\ rows = <<>>
    /\ rows' = FlatRows(tree)
    /\ phase' = "idle"
    /\ via' = [via EXCEPT ![k] = "fallback"]
    /\ fstate' = [fstate EXCEPT ![k] = "rows-emitted"]
    /\ UNCHANGED <<input, pc, files, k, tree, cm, j, opened, out, total_rows,
                   diag, report,
                   wordvars>>

\* line 135 with rows not empty; line 175
ReturnRows ==
    /\ InFile
    /\ phase = "primary-done"
    /\ rows # <<>>
    /\ phase' = "idle"
    /\ via' = [via EXCEPT ![k] = "primary"]
    /\ fstate' = [fstate EXCEPT ![k] = "rows-emitted"]
    /\ UNCHANGED <<input, pc, files, k, tree, cm, rows, j, opened, out,
                   total_rows, diag, report,
                   wordvars>>

Returned == InFile /\ fstate[k] \in {"rows-emitted", "zero-rows"}

\* lines 259-260: one writer.writerow(r)
WriteRow ==
    /\ Returned
    /\ j < Len(rows)
    /\ out' = Append(out, CsvLine(rows[j + 1]))
    /\ j' = j + 1
    /\ UNCHANGED <<input, pc, files, k, fstate, via, tree, cm, phase, rows,
                   opened, total_rows, diag, report,
                   wordvars>>

\* a plausible slip: the total counts files that gave rows, not rows
CountOneMore(n, rs) == IF rs = <<>> THEN n ELSE n + 1

\* line 261
AddRows(n, rs) == n + Len(rs)

\* line 261, and the loop of line 257 moves to the next file
CountRows ==
    /\ Returned
    /\ j = Len(rows)
    /\ total_rows' = AddRows(total_rows, rows)
    /\ k' = k + 1
    /\ j' = 0
    /\ UNCHANGED <<input, pc, files, fstate, via, tree, cm, phase, rows,
                   opened, out, diag, report,
                   wordvars>>

\* line 263
Report ==
    /\ pc = "loop"
    /\ k > Len(files)
    /\ report' = <<total_rows, Len(files)>>
    /\ pc' = "done"
    /\ UNCHANGED <<input, files, k, fstate, via, tree, cm, phase, rows, j,
                   opened, out, total_rows, diag,
                   wordvars>>

Next ==
    \/ CollectFails
    \/ CollectInputs
    \/ ParseOk
    \/ ParseFail
    \/ ReturnEmpty
    \/ ResolveNamespace
    \/ PrimaryPass
    \/ PrimaryCrash
    \/ FlatFallback
    \/ ReturnRows
    \/ WriteRow
    \/ CountRows
    \/ Report

(***************************************************************************)
(* csv2word.py and csv2word_v2.py: the renderers of the Word document.     *)
(* csv.DictReader gives each line as a row whose keys are the header's     *)
(* names; a line shorter than the header has None under the names it does  *)
(* not reach.                                                              *)
(***************************************************************************)
HEADERS ==
    << "Compliance CIS Benchmark",
       "Compliance Info",
       "Result Value",
       "Result",
       "CIS Recommendation",
       "Management Respond",
       "Revalidation Result" >>

\* CSV_MAP: the column as a one-element sequence, Python's None as <<>>
CSV_MAP(header) ==
    CASE header = "Compliance CIS Benchmark" -> <<"Compliance Check Name">>
      [] header = "Compliance Info" -> <<"Compliance Info">>
      [] header = "Result Value" -> <<"Compliance Actual Value">>
      [] header = "Result" -> <<"Compliance Result">>
      [] header = "CIS Recommendation" -> <<"Compliance Solution">>
      [] header = "Management Respond" -> <<>>
      [] header = "Revalidation Result" -> <<>>

\* r.get(key, default)
RowGet(r, key, default) ==
    IF \E i \in DOMAIN r : r[i][1] = key THEN Field(r, key) ELSE default

\* f"{check_name} ({profile})"
Parenthesised(check_name, profile) ==
    check_name \o <<" ", "(">> \o profile \o <<")">>

\* a plausible slip: the cell keeps what CSV_MAP gave it, the profile is not added
BenchmarkCellNameOnly(r) ==
    Strip(Or(RowGet(r, "Compliance Check Name", EmptyStr), EmptyStr))

\* csv2word.py lines 211-214
BenchmarkCell(r) ==
    LET check_name == Strip(Or(RowGet(r, "Compliance Check Name", None), EmptyStr))
        profile == Strip(Or(RowGet(r, "Compliance Benchmark Profile", None), EmptyStr))
    IN  IF profile # EmptyStr THEN Parenthesised(check_name, profile) ELSE check_name

\* csv2word.py lines 203-220: the text one cell gets
CellValue(r, header) ==
    LET csv_col == CSV_MAP(header)
        value == IF csv_col # <<>>
                 THEN Strip(Or(RowGet(r, csv_col[1], EmptyStr), EmptyStr))
                 ELSE EmptyStr
    IN  IF header = "Compliance CIS Benchmark" THEN BenchmarkCell(r) ELSE value

\* csv2word.py lines 201-220: one pass of `for r in rows`
TableRow(r) == [i \in DOMAIN HEADERS |-> CellValue(r, HEADERS[i])]

\* csv2word_v2.py lines 184-187
BenchmarkCellV2(r) ==
    LET check_name == Strip(Or(RowGet(r, "Compliance Check Name", None), EmptyStr))
        profile == Strip(Or(RowGet(r, "Compliance Benchmark Profile", None), EmptyStr))
    IN  IF profile # EmptyStr THEN Parenthesised(check_name, profile) ELSE check_name

\* csv2word_v2.py lines 176-192
CellValueV2(r, header) ==
    LET csv_col == CSV_MAP(header)
        value == IF csv_col # <<>>
                 THEN Strip(Or(RowGet(r, csv_col[1], EmptyStr), EmptyStr))
                 ELSE EmptyStr
    IN  IF header = "Compliance CIS Benchmark" THEN BenchmarkCellV2(r) ELSE value

\* csv2word_v2.py lines 174-192
TableRowV2(r) == [i \in DOMAIN HEADERS |-> CellValueV2(r, HEADERS[i])]

\* main: the columns CSV_MAP names that the header lacks; csv2word_v2 adds
\* the profile column to the list and takes it out again
MissingColumns(fieldnames) ==
    { CSV_MAP(HEADERS[i])[1] : i \in { n \in DOMAIN HEADERS : CSV_MAP(HEADERS[n]) # <<>> } }
    \ { fieldnames[i] : i \in DOMAIN fieldnames }

\* main raises ValueError
RaiseMissing ==
    /\ wpc = "start"
    /\ MissingColumns(csv.fieldnames) # {}
    /\ wpc' = "error"
    /\ UNCHANGED <<input, pc, files, k, fstate, via, tree, cm, phase, rows, j,
                   opened, out, total_rows, diag, report, tool, csv, table>>

\* main up to the table's header row
StartTable ==
    /\ wpc = "start"
    /\ MissingColumns(csv.fieldnames) = {}
    /\ table' = <<>>
    /\ wpc' = "table"
    /\ UNCHANGED <<input, pc, files, k, fstate, via, tree, cm, phase, rows, j,
                   opened, out, total_rows, diag, report, tool, csv>>

\* create_table_from_rows: one pass of the loop of line 200
AddTableRow ==
    /\ wpc = "table"
    /\ tool = "csv2word"
    /\ Len(table) < Len(csv.rows)
    /\ table' = Append(table, TableRow(csv.rows[Len(table) + 1]))
    /\ UNCHANGED <<input, pc, files, k, fstate, via, tree, cm, phase, rows, j,
                   opened, out, total_rows, diag, report, tool, csv, wpc>>

\* create_compliance_table: one pass of the loop of line 174
AddTableRowV2 ==
    /\ wpc = "table"
    /\ tool = "csv2word_v2"
    /\ Len(table) < Len(csv.rows)
    /\ table' = Append(table, TableRowV2(csv.rows[Len(table) + 1]))
    /\ UNCHANGED <<input, pc, files, k, fstate, via, tree, cm, phase, rows, j,
                   opened, out, total_rows, diag, report, tool, csv, wpc>>

\* the table is complete; doc.save
SaveDocument ==
    /\ wpc = "table"
    /\ Len(table) = Len(csv.rows)
    /\ wpc' = "saved"
    /\ UNCHANGED <<input, pc, files, k, fstate, via, tree, cm, phase, rows, j,
                   opened, out, total_rows, diag, report, tool, csv, table>>

NextWord ==
    \/ RaiseMissing
    \/ StartTable
    \/ AddTableRow
    \/ AddTableRowV2
    \/ SaveDocument

(***************************************************************************)
(* The inputs the specifications start from.                               *)
(***************************************************************************)
Digit(i) == Digits[i + 1]

ScanName == <<"s","c","a","n">> \o NessusExt

File(doc) == [wellformed |-> TRUE, nodes |-> doc]

\* a file etree.parse fails on
BadFile == [wellformed |-> FALSE, nodes |-> <<>>]

SingleFile(f) ==
    [exists |-> TRUE, isfile |-> TRUE, name |-> ScanName, recursive |-> FALSE,
     entries |-> << [name |-> ScanName, sub |-> FALSE, file |-> f] >>]

Directory(es, rec) ==
    [exists |-> TRUE, isfile |-> FALSE, name |-> <<"d","i","r">>,
     recursive |-> rec, entries |-> es]

MissingPath ==
    [exists |-> FALSE, isfile |-> FALSE, name |-> <<"n","o","n","e">>,
     recursive |-> FALSE, entries |-> <<>>]

NotNessusFile ==
    [exists |-> TRUE, isfile |-> TRUE, name |-> <<"s",".","x","m","l">>,
     recursive |-> FALSE,
     entries |-> << [name |-> <<"s",".","x","m","l">>, sub |-> FALSE, file |-> BadFile] >>]

\* The structure family: every tree of at most MaxNodes elements whose
\* elements are ReportHost, ReportItem or another element.  The host at
\* position i is named "h<i>" (or has no name), the item at position i has
\* pluginID "<i>" and no other attribute.
RECURSIVE OnPathTo(_, _, _)
OnPathTo(p, a, d) == a = d \/ (d > 1 /\ OnPathTo(p, a, p[d]))

\* parent vectors of the trees of n elements listed in document order
ParentVectors(n) ==
    { p \in [2..n -> 1..n] :
        \A i \in 2..n : p[i] < i /\ (i > 2 => OnPathTo(p, p[i], i - 1)) }

StructTags == {"ReportHost", "ReportItem", "Report"}

StructElem(i, parent, tag, named) ==
    Elem(parent, None, tag,
         CASE tag = "ReportHost" /\ named -> [name |-> <<"h", Digit(i)>>]
           [] tag = "ReportItem" -> [pluginID |-> <<Digit(i)>>]
           [] OTHER -> NoAttrs,
         None)

StructDocs ==
    UNION { { [i \in 1..n |-> StructElem(i, IF i = 1 THEN 0 ELSE p[i], t[i], named)] :
                p \in ParentVectors(n), t \in [1..n -> StructTags], named \in BOOLEAN }
            : n \in 1..MaxNodes }

\* The batch family: directories of at most MaxFiles entries.
DocTwoItems ==
    << Elem(0, None, "Report", NoAttrs, None),
       Elem(1, None, "ReportHost", [name |-> <<"h","1">>], None),
       Elem(2, None, "ReportItem", [pluginID |-> <<"7">>, severity |-> <<"3">>], None),
       Elem(2, None, "ReportItem", [pluginID |-> <<"8">>], None) >>

\* an item under no host, with every attribute and child the primary path reads
DocOrphanItem ==
    << Elem(0, None, "Report", NoAttrs, None),
       Elem(1, None, "ReportItem",
            [pluginID |-> <<"9">>, pluginName |-> <<"n">>, pluginFamily |-> <<"f">>,
             severity |-> <<"2">>, port |-> <<"8","0">>, protocol |-> <<"t","c","p">>,
             svc_name |-> <<"w","w","w">>],
            None),
       Elem(2, None, "risk_factor", NoAttrs, <<" ","L","o","w","\n">>),
       Elem(2, None, "compliance", NoAttrs, S_true),
       Elem(2, DefaultCm, "compliance-result", NoAttrs, <<"F","A","I","L","E","D">>),
       Elem(2, None, "compliance-info", NoAttrs, <<"i">>) >>

BatchEntries ==
    { [name |-> <<"a">> \o NessusExt, sub |-> FALSE, file |-> BadFile],
      [name |-> <<"b",".","N","E","S","S","U","S">>, sub |-> FALSE, file |-> File(DocTwoItems)],
      [name |-> <<"c">> \o NessusExt, sub |-> TRUE, file |-> File(DocOrphanItem)],
      [name |-> <<"d",".","x","m","l">>, sub |-> FALSE, file |-> File(DocTwoItems)] }

\* os.walk lists a directory's own files before those of its subdirectories
WalkOrder(es) == \A a, b \in DOMAIN es : a < b /\ es[a].sub => es[b].sub

BatchInputs ==
    { Directory(es, rec) :
        es \in { e \in UNION { [1..n -> BatchEntries] : n \in 0..MaxFiles } : WalkOrder(e) },
        rec \in BOOLEAN }

StructInputs == { SingleFile(File(d)) : d \in StructDocs \cup {DocTwoItems, DocOrphanItem} }

(***************************************************************************)
(* The field families: documents of one item, whose attributes, children   *)
(* and host vary.                                                          *)
(***************************************************************************)
RECURSIVE Concat(_)
Concat(ss) == IF ss = <<>> THEN <<>> ELSE Head(ss) \o Concat(Tail(ss))

\* the sequences of at most n pieces of P
PieceSeqs(P, n) == UNION { [1..m -> P] : m \in 0..n }

\* the texts put together from at most n pieces of P
Texts(P, n) == { Concat(ps) : ps \in PieceSeqs(P, n) }

\* a child of the item: directly under it, or one level deeper under a
\* wrapper element when deep
Kid(uri, tag, text, deep) == [uri |-> uri, tag |-> tag, text |-> text, deep |-> deep]

RECURSIVE KidElems(_, _, _)
KidElems(ks, item, next) ==
    IF ks = <<>> THEN <<>>
    ELSE LET kd == Head(ks)
         IN  IF kd.deep
             THEN << Elem(item, None, "wrap", NoAttrs, None),
                     Elem(next, kd.uri, kd.tag, NoAttrs, kd.text) >>
                  \o KidElems(Tail(ks), item, next + 2)
             ELSE << Elem(item, kd.uri, kd.tag, NoAttrs, kd.text) >>
                  \o KidElems(Tail(ks), item, next + 1)

\* one item with the given attributes and children, under a host or under
\* the root
ItemDoc(hosted, attrs, ks) ==
    IF hosted
    THEN << Elem(0, None, "Report", NoAttrs, None),
            Elem(1, None, "ReportHost", [name |-> <<"h">>], None),
            Elem(2, None, "ReportItem", attrs, None) >> \o KidElems(ks, 3, 4)
    ELSE << Elem(0, None, "Report", NoAttrs, None),
            Elem(1, None, "ReportItem", attrs, None) >> \o KidElems(ks, 2, 3)

\* severity codes
SeverityPieces == { <<"0">>, <<"3">>, <<"4">>, <<"9">>, <<" ">> }

SeverityDocs ==
    { ItemDoc(hosted, [pluginID |-> <<"1">>, severity |-> code], <<>>) :
        hosted \in BOOLEAN,
        code \in Texts(SeverityPieces, MaxPieces) \cup { <<"1">>, <<"2">> } }
    \cup { ItemDoc(hosted, [pluginID |-> <<"1">>], <<>>) : hosted \in BOOLEAN }

\* texts of the `compliance` child
CompliancePieces ==
    { <<" ">>, <<"\n">>, S_true, <<"T","R","U","E">>, <<"T","r","u","e">>, S_false, <<"x">> }

ComplianceDocs ==
    { ItemDoc(TRUE, [pluginID |-> <<"1">>], << Kid(None, "compliance", text, FALSE) >>) :
        text \in Texts(CompliancePieces, MaxPieces) \cup {None} }

\* texts of a compliance field
EntityPieces ==
    { <<" ">>, <<"M">>, <<"&","a","m","p",";">>, <<"&","a","m","p">>,
      <<"&","#","3","2",";">>, <<"a","m","p",";">> }

EntityDocs ==
    { ItemDoc(TRUE, [pluginID |-> <<"1">>],
              << Kid(DefaultCm, "compliance-result", text, FALSE) >>) :
        text \in Texts(EntityPieces, MaxPieces) }

\* a namespace other than the default that the detection of lines 26-33 adopts
OtherCm == <<"u","r","n",":">> \o MarkerCompliance

\* the three places cm_text looks in, each empty or holding an element, and
\* an unqualified element one level deeper, where it does not look
Slot(present, uri, tag, texts, deep) ==
    { <<>> } \cup { << Kid(uri, tag, t, deep) >> : t \in IF present THEN texts ELSE {} }

TierDocs ==
    { ItemDoc(TRUE, [pluginID |-> <<"1">>], q \o u \o d \o w) :
        q \in UNION { Slot(TRUE, uri, "compliance-result", {None, <<" ">>, <<" ","a"," ">>}, FALSE)
                        : uri \in {DefaultCm, OtherCm} },
        u \in Slot(TRUE, None, "compliance-result", {None, <<"b">>}, FALSE)
                \cup { << Kid(None, "compliance-info", <<"i">>, FALSE) >> },
        d \in UNION { Slot(TRUE, uri, "compliance-result", {None, <<"c">>}, TRUE)
                        : uri \in {DefaultCm, OtherCm} },
        w \in Slot(TRUE, None, "compliance-result", {<<"e">>}, TRUE) }

\* hosts: the name attribute absent, empty or set, and at most MaxTags tag
\* elements under HostProperties
TagKinds ==
    { Elem(3, None, "tag", [name |-> HostIpKey], <<"x">>),
      Elem(3, None, "tag", [name |-> HostIpKey], <<"y">>),
      Elem(3, None, "tag", [name |-> HostIpKey], None),
      Elem(3, None, "tag", [name |-> <<"o","s">>], <<"z">>),
      Elem(3, None, "tag", NoAttrs, <<"w">>) }

HostAttrs == { NoAttrs, [name |-> EmptyStr], [name |-> <<"h">>] }

\* a second host after the first one
SecondHosts(at) ==
    { << Elem(1, None, "ReportHost", a, None),
         Elem(at, None, "ReportItem", [pluginID |-> <<"3">>], None) >> :
        a \in { NoAttrs, [name |-> <<"g">>] } }

HostDoc(a, tags, second) ==
    << Elem(0, None, "Report", NoAttrs, None),
       Elem(1, None, "ReportHost", a, None),
       Elem(2, None, "HostProperties", NoAttrs, None) >>
    \o tags
    \o << Elem(2, None, "ReportItem", [pluginID |-> <<"1">>], None),
          Elem(2, None, "ReportItem", [pluginID |-> <<"2">>], None) >>
    \o second

HostDocs ==
    UNION { { HostDoc(a, tags, second) :
                a \in HostAttrs, second \in SecondHosts(6 + Len(tags)) }
            : tags \in PieceSeqs(TagKinds, MaxTags) }

FatalInputs == { MissingPath, NotNessusFile }

\* a compliance text with a numeric reference of 4301 digits: "&#9...9;"
DocLongReference ==
    << Elem(0, None, "Report", NoAttrs, None),
       Elem(1, None, "ReportHost", [name |-> <<"h","1">>], None),
       Elem(2, None, "ReportItem", [pluginID |-> <<"5">>], None),
       Elem(3, DefaultCm, "compliance-info", NoAttrs, <<"&", "#", LongDigits, ";">>) >>

\* the file alone, and after a file with rows in a directory
LimitInputs ==
    { SingleFile(File(DocLongReference)),
      Directory(<< [name |-> <<"a">> \o NessusExt, sub |-> FALSE, file |-> File(DocTwoItems)],
                   [name |-> <<"b">> \o NessusExt, sub |-> FALSE, file |-> File(DocLongReference)],
                   [name |-> <<"c">> \o NessusExt, sub |-> FALSE, file |-> File(DocTwoItems)] >>,
                FALSE) }

Init == InitWith(StructInputs \cup BatchInputs \cup FatalInputs \cup LimitInputs)

Spec == Init /\ [][Next]_vars

\* a directory that takes the run through a failing file, the primary path
\* and the flat fallback
MixedDirectory ==
    Directory(<< [name |-> <<"a">> \o NessusExt, sub |-> FALSE, file |-> BadFile],
                 [name |-> <<"b">> \o NessusExt, sub |-> FALSE, file |-> File(DocTwoItems)],
                 [name |-> <<"c">> \o NessusExt, sub |-> FALSE, file |-> File(DocOrphanItem)] >>,
              FALSE)

\* namespaces: two items, each with a compliance-info child, and one more
\* element after them; each of the three tags unqualified, in one of two URIs
\* with a marker, or in a URI without one
PlainUri == <<"u","r","n",":","C","M">>

NsUris == {None, DefaultCm, OtherCm, PlainUri}

NsDoc(u1, u2, u3) ==
    << Elem(0, None, "Report", NoAttrs, None),
       Elem(1, None, "ReportHost", [name |-> <<"h","1">>], None),
       Elem(2, None, "ReportItem", [pluginID |-> <<"1">>], None),
       Elem(3, u1, "compliance-info", NoAttrs, <<"a">>),
       Elem(2, None, "ReportItem", [pluginID |-> <<"2">>], None),
       Elem(5, u2, "compliance-info", NoAttrs, <<"b">>),
       Elem(1, u3, "Policy", NoAttrs, None) >>

NsDocs == { NsDoc(u1, u2, u3) : u1 \in NsUris, u2 \in NsUris, u3 \in NsUris }

FieldDocs ==
    SeverityDocs \cup ComplianceDocs \cup EntityDocs \cup TierDocs \cup HostDocs
        \cup NsDocs

FieldInputs == { SingleFile(File(d)) : d \in FieldDocs }

InitFields == InitWith(FieldInputs \cup FatalInputs \cup LimitInputs \cup {MixedDirectory})

SpecFields == InitFields /\ [][Next]_vars

\* The batch family alone, with the program always taking its next step: it
\* is one thread that never waits.
InitBatch == InitWith(BatchInputs \cup FatalInputs \cup LimitInputs)

SpecBatchFair == InitBatch /\ [][Next]_vars /\ WF_vars(Next)

(***************************************************************************)
(* The renderer family: CSV files of at most MaxCsvRows lines, with the    *)
(* header nessus2csv writes, or that header less one column.               *)
(***************************************************************************)
Without(fn, col) == SelectSeq(fn, LAMBDA c : c # col)

CsvHeaders ==
    { Fieldnames,
      Without(Fieldnames, "Compliance Benchmark Profile"),
      Without(Fieldnames, "Compliance Solution") }

CheckNames == { <<"c">>, <<" ", "c", "\n">> }

Profiles == { <<"p", " ">>, <<" ">>, EmptyStr }

\* the place of a column in a header
ColumnAt(fn, col) == CHOOSE i \in DOMAIN fn : fn[i] = col

\* a line of the CSV as csv.DictReader gives it; a short line ends after
\* its "Compliance Result" value
CsvRow(fn, name, profile, short) ==
    [i \in DOMAIN fn |->
       << fn[i],
          IF short /\ i > ColumnAt(fn, "Compliance Result") THEN None
          ELSE CASE fn[i] = "Compliance Check Name" -> name
                 [] fn[i] = "Compliance Benchmark Profile" -> profile
                 [] fn[i] = "Compliance Benchmark Name" -> <<"b">>
                 [] fn[i] = "Compliance Result" -> <<"P","A","S","S","E","D","\n">>
                 [] fn[i] = "Compliance Info" -> <<" ", "i">>
                 [] fn[i] = "Compliance Actual Value" -> <<"a", "\t">>
                 [] fn[i] = "Compliance Solution" -> <<"s">>
                 [] OTHER -> EmptyStr >> ]

CsvRows(fn) ==
    { CsvRow(fn, name, profile, short) :
        name \in CheckNames, profile \in Profiles, short \in BOOLEAN }

CsvFiles ==
    UNION { { [fieldnames |-> fn, rows |-> rs] : rs \in PieceSeqs(CsvRows(fn), MaxCsvRows) }
            : fn \in CsvHeaders }

\* nessus2csv does not run
NoConversion ==
    /\ input = MissingPath
    /\ pc = "off"
    /\ files = <<>>
    /\ k = 0
    /\ fstate = <<>>
    /\ via = <<>>
    /\ tree = <<>>
    /\ cm = None
    /\ phase = "idle"
    /\ rows = <<>>
    /\ j = 0
    /\ opened = FALSE
    /\ out = <<>>
    /\ total_rows = 0
    /\ diag = 0
    /\ report = <<>>

InitWord ==
    /\ NoConversion
    /\ tool \in {"csv2word", "csv2word_v2"}
    /\ csv \in CsvFiles
    /\ wpc = "start"
    /\ table = <<>>

SpecWord == InitWord /\ [][NextWord]_vars

(***************************************************************************)
(* parse_nessus_file as a function of the document, for the statements     *)
(* that compare the run with it.                                           *)
(***************************************************************************)
ParseRows(doc) ==
    LET primary == PrimaryRows(doc, ResolveNs(doc))
    IN  IF primary = <<>> THEN FlatRows(doc) ELSE primary

\* the rows parse_nessus_file returns for a file
RowsOfFile(f) == IF f.wellformed THEN ParseRows(f.nodes) ELSE <<>>

LinesOfFile(f) == [n \in DOMAIN RowsOfFile(f) |-> CsvLine(RowsOfFile(f)[n])]

(***************************************************************************)
(* Vocabulary of the statements below.                                     *)
(***************************************************************************)
IsHost(doc, i) == HasTag(doc[i], None, "ReportHost")

IsItem(doc, i) == HasTag(doc[i], None, "ReportItem")

\* the ReportHost elements below the root
HostsBelowRoot(doc) == { h \in 2..Len(doc) : IsHost(doc, h) }

AllHosts(doc) == { h \in 1..Len(doc) : IsHost(doc, h) }

AllItems(doc) == { i \in 1..Len(doc) : IsItem(doc, i) }

\* the items that lie under a host of the set hs
ItemsUnder(doc, hs) ==
    { i \in AllItems(doc) : \E h \in hs : IsAncestor(doc, h, i) }

HostItemPairs(doc) ==
    { <<h, i>> \in HostsBelowRoot(doc) \X AllItems(doc) : IsAncestor(doc, h, i) }

NoNestedHosts(doc) ==
    \A g, h \in HostsBelowRoot(doc) : ~IsAncestor(doc, g, h)

\* the elements of a set of positions, in document order
InDocOrder(doc, S) == SelectSeq(Indices(doc), LAMBDA i : i \in S)

\* an attribute's value as the document gives it, "" when it gives none
AttrText(e, name) == IF name \in DOMAIN e.attrs THEN e.attrs[name] ELSE EmptyStr

IsText(v) == v # None /\ \A i \in DOMAIN v : v[i] \in STRING

\* the data lines written so far, the header left out
DataLines == IF out = <<>> THEN <<>> ELSE Tail(out)

(***************************************************************************)
(* C1 (as amended).  When the loop over the hosts ends, rows holds one row *)
(* per pair of a ReportHost below the root and a ReportItem in its         *)
(* subtree.  So for a document whose ReportHost elements below the root    *)
(* are not nested in one another and hold N ReportItem elements at any     *)
(* depth, the primary traversal emits exactly N rows: one per such item,   *)
(* in document order, none duplicated and none omitted.                    *)
(***************************************************************************)
C1_PrimaryOneRowPerHostedItem ==
    phase = "primary-done" =>
        /\ Len(rows) = Cardinality(HostItemPairs(tree))
        /\ NoNestedHosts(tree) =>
             LET items == InDocOrder(tree, ItemsUnder(tree, HostsBelowRoot(tree)))
             IN  /\ Len(rows) = Len(items)
                 /\ \A n \in DOMAIN items :
                        Field(rows[n], "Plugin ID") = AttrText(tree[items[n]], "pluginID")

\* a host holding two items, one of them not its direct child
C1_Witness ==
    /\ phase = "primary-done"
    /\ NoNestedHosts(tree)
    /\ Len(rows) = 2
    /\ \E i \in ItemsUnder(tree, HostsBelowRoot(tree)) : ~IsHost(tree, tree[i].parent)

\* C1 as stated: with H >= 1 ReportHost elements and N >= 1 ReportItem
\* elements under them, whatever the nesting, the primary traversal emits
\* exactly N rows.
C1_Original ==
    (/\ phase = "primary-done"
     /\ Cardinality(AllHosts(tree)) >= 1
     /\ Cardinality(ItemsUnder(tree, AllHosts(tree))) >= 1)
    => Len(rows) = Cardinality(ItemsUnder(tree, AllHosts(tree)))

(***************************************************************************)
(* C2.  Every row parse_nessus_file builds, in the primary traversal or in *)
(* the flat fallback, has the 28 keys of main's fieldnames in that order,  *)
(* and every value is a string, never None.                                *)
(***************************************************************************)
C2_RowsHaveTheFixedColumns ==
    /\ Len(Fieldnames) = 28
    /\ \A n \in DOMAIN rows :
          /\ Keys(rows[n]) = Fieldnames
          /\ \A i \in DOMAIN rows[n] : IsText(rows[n][i][2])

\* rows of the flat fallback in hand, after a file that took the primary path
C2_Witness ==
    /\ rows # <<>>
    /\ \E a, b \in DOMAIN via : a < b /\ via[a] = "primary" /\ via[b] = "fallback" /\ b = k

(***************************************************************************)
(* C3.  A file that fails to parse contributes no row and does not end the *)
(* run: once the inputs are collected main never exits with status 1, at   *)
(* the end every well-formed file has had its rows emitted, and the lines  *)
(* written are those of the batch with the failing files left out.         *)
(***************************************************************************)
C3_ParseFailureIsIsolated ==
    /\ pc = "exit1" => ~opened
    /\ pc = "done" =>
          /\ \A i \in DOMAIN files :
                fstate[i] = IF files[i].wellformed THEN "rows-emitted" ELSE "zero-rows"
          /\ LET good == SelectSeq(files, LAMBDA f : f.wellformed)
             IN  DataLines = Concat([i \in DOMAIN good |-> LinesOfFile(good[i])])

\* a failing file followed by a file whose rows were written
C3_Witness ==
    /\ pc = "done"
    /\ \E a, b \in DOMAIN files :
          a < b /\ ~files[a].wellformed /\ files[b].wellformed
    /\ Len(out) > 1

(***************************************************************************)
(* C4.  At the end the data lines are the files' rows in file order, each  *)
(* file's rows in the order parse_nessus_file returned them; the reported  *)
(* row total is the number of data lines written and the reported file     *)
(* count is the number of input files, failed or not.                      *)
(***************************************************************************)
RowCount(i) == Len(RowsOfFile(files[i]))

RECURSIVE Offset(_)
Offset(i) == IF i = 1 THEN 0 ELSE Offset(i - 1) + RowCount(i - 1)

\* C4: at the end the data lines are the files' rows in file order, and the
\* report is <<data lines written, number of input files>>
C4_StreamIsConcatenationInFileOrder ==
    pc = "done" =>
        /\ \A i \in DOMAIN files :
              SubSeq(DataLines, Offset(i) + 1, Offset(i) + RowCount(i))
                  = LinesOfFile(files[i])
        /\ Len(DataLines) = Offset(Len(files)) + RowCount(Len(files))
        /\ report = <<Len(DataLines), Len(files)>>

\* three files: one that failed and two that gave different numbers of rows
C4_Witness ==
    /\ pc = "done"
    /\ Len(files) = 3
    /\ \E a, b, c \in DOMAIN files :
          /\ ~files[a].wellformed
          /\ RowCount(b) = 2
          /\ RowCount(c) = 1
          /\ b < c
    /\ report = <<3, 3>>

(***************************************************************************)
(* Vocabulary of the statements about single fields.                       *)
(***************************************************************************)
\* rows have just been returned for a document without nested hosts, so
\* that the n-th row is the row of the n-th item of RowItems
AtRows == InFile /\ fstate[k] = "rows-emitted" /\ NoNestedHosts(tree)

RowItems ==
    IF via[k] = "fallback"
    THEN InDocOrder(tree, AllItems(tree))
    ELSE InDocOrder(tree, ItemsUnder(tree, HostsBelowRoot(tree)))

HostOf(doc, item) == CHOOSE h \in HostsBelowRoot(doc) : IsAncestor(doc, h, item)

MinOf(S) == CHOOSE x \in S : \A y \in S : x <= y

\* t without the whitespace at its two ends
TrimOf(t) ==
    LET solid == { i \in DOMAIN t : t[i] \notin Whitespace }
    IN  IF solid = {} THEN <<>> ELSE SubSeq(t, MinOf(solid), MaxOf(solid))

\* the label of a severity code
SeverityLabel(code) ==
    CASE code = <<"0">> -> <<"I","n","f","o">>
      [] code = <<"1">> -> <<"L","o","w">>
      [] code = <<"2">> -> <<"M","e","d","i","u","m">>
      [] code = <<"3">> -> <<"H","i","g","h">>
      [] code = <<"4">> -> <<"C","r","i","t","i","c","a","l">>
      [] code = <<>>    -> <<"U","n","k","n","o","w","n">>
      [] OTHER          -> code

(***************************************************************************)
(* C5.  The Severity column is the label of the item's severity attribute: *)
(* Info, Low, Medium, High, Critical for "0".."4", the code itself for any *)
(* other non-empty code, Unknown for an absent or empty one; in the        *)
(* primary path and in the flat fallback alike.                            *)
(***************************************************************************)
C5_SeverityLabel ==
    AtRows =>
        \A n \in DOMAIN rows :
            Field(rows[n], "Severity")
                = SeverityLabel(AttrText(tree[RowItems[n]], "severity"))

\* the flat fallback returns an unmapped code as its own label
C5_Witness ==
    /\ AtRows
    /\ via[k] = "fallback"
    /\ \E n \in DOMAIN rows :
          /\ AttrText(tree[RowItems[n]], "severity") = <<"9">>
          /\ Field(rows[n], "Severity") = <<"9">>

(***************************************************************************)
(* C6 (as amended).  In the primary path 'Is Compliance Item' is "true"    *)
(* exactly when the text of the item's first `compliance` child, with the  *)
(* whitespace at its two ends removed, is "true" in any mix of cases; it   *)
(* is "false" for every other text and for an absent child.                *)
(***************************************************************************)
IsTrueAnyCase(w) ==
    /\ Len(w) = 4
    /\ w[1] \in {"t", "T"}
    /\ w[2] \in {"r", "R"}
    /\ w[3] \in {"u", "U"}
    /\ w[4] \in {"e", "E"}

\* the text of the item's first `compliance` child; None without one
ComplianceText(doc, item) ==
    LET cs == { i \in 1..Len(doc) :
                  doc[i].parent = item /\ HasTag(doc[i], None, "compliance") }
    IN  IF cs = {} THEN None ELSE doc[MinOf(cs)].text

\* C6 (as amended): the flag is "true" exactly when the trimmed text of the
\* `compliance` child is "true" in any mix of cases
C6_ComplianceFlagAfterTrim ==
    (AtRows /\ via[k] = "primary") =>
        \A n \in DOMAIN rows :
            LET t == ComplianceText(tree, RowItems[n])
            IN  Field(rows[n], "Is Compliance Item")
                  = IF t # None /\ IsTrueAnyCase(TrimOf(t)) THEN S_true ELSE S_false

\* "true" in mixed case between whitespace is flagged
C6_Witness ==
    /\ AtRows
    /\ via[k] = "primary"
    /\ \E n \in DOMAIN rows :
          LET t == ComplianceText(tree, RowItems[n])
          IN  /\ t # None
              /\ Len(t) > 5
              /\ t[1] \in Whitespace
              /\ t[Len(t)] \in Whitespace
              /\ TrimOf(t) # S_true
              /\ Field(rows[n], "Is Compliance Item") = S_true

\* C6 as stated: the text itself must be the four letters, so that a text
\* with surrounding whitespace yields "false"
C6_Original ==
    (AtRows /\ via[k] = "primary") =>
        \A n \in DOMAIN rows :
            LET t == ComplianceText(tree, RowItems[n])
            IN  Field(rows[n], "Is Compliance Item")
                  = IF t # None /\ IsTrueAnyCase(t) THEN S_true ELSE S_false

(***************************************************************************)
(* C7.  For every compliance field, cm_text takes the text of the first    *)
(* place that holds an element: the item's first direct child              *)
(* {cm}field-name; failing that its first direct child field-name without  *)
(* a namespace; failing that the first {cm}field-name anywhere below the   *)
(* item.  A later place is used only when no earlier one holds an element. *)
(***************************************************************************)
CmSourceText(doc, item, ns, tagname) ==
    LET Q == { i \in 1..Len(doc) : doc[i].parent = item /\ HasTag(doc[i], ns, tagname) }
        U == { i \in 1..Len(doc) : doc[i].parent = item /\ HasTag(doc[i], None, tagname) }
        D == { i \in 1..Len(doc) : IsAncestor(doc, item, i) /\ HasTag(doc[i], ns, tagname) }
    IN  IF Q # {} THEN doc[MinOf(Q)].text
        ELSE IF U # {} THEN doc[MinOf(U)].text
        ELSE IF D # {} THEN doc[MinOf(D)].text
        ELSE None

\* C7: each compliance column is the text of the first of the three places
\* that holds an element, trimmed and decoded; "" when none does
C7_ThreeTierLookup ==
    (AtRows /\ via[k] = "primary") =>
        \A n \in DOMAIN rows : \A f \in DOMAIN CmFields :
            LET t == CmSourceText(tree, RowItems[n], cm, CmFields[f][2])
            IN  Field(rows[n], CmFields[f][1])
                  = IF t = None \/ t = EmptyStr THEN EmptyStr ELSE Unescape(Strip(t))

\* a document without any namespaced element still yields the field's text
C7_Witness ==
    /\ AtRows
    /\ via[k] = "primary"
    /\ \A i \in 1..Len(tree) : tree[i].uri = None
    /\ \E n \in DOMAIN rows : Field(rows[n], "Compliance Result") = <<"b">>

(***************************************************************************)
(* C8 (as amended).  A value cm_text returns is the source text trimmed of *)
(* the whitespace at its ends and then entity-decoded in one pass: every   *)
(* reference of the trimmed text is decoded once (M&amp;M gives M&M, and   *)
(* &amp;amp; gives &amp;), and the value begins or ends with whitespace    *)
(* only where the trimmed text begins or ends with a reference that        *)
(* decodes to whitespace (&#32;).                                          *)
(***************************************************************************)
P_space == <<" ">>

P_ref32 == <<"&","#","3","2",";">>

\* what one piece of EntityPieces decodes to
PieceDecoded(p) ==
    CASE p = <<"&","a","m","p",";">> -> <<"&">>
      [] p = <<"&","a","m","p">>     -> <<"&">>
      [] p = P_ref32                 -> <<" ">>
      [] OTHER                       -> p

\* the pieces without the whitespace pieces at the two ends
TrimPieces(ps) ==
    LET solid == { i \in DOMAIN ps : ps[i] # P_space }
    IN  IF solid = {} THEN <<>> ELSE SubSeq(ps, MinOf(solid), MaxOf(solid))

\* the ways the text is put together from pieces
Spellings(t) == { ps \in PieceSeqs(EntityPieces, MaxPieces) : Concat(ps) = t }

\* the text of the item's first direct child {cm}compliance-result
ResultText(doc, item, ns) ==
    LET Q == { i \in 1..Len(doc) :
                 doc[i].parent = item /\ HasTag(doc[i], ns, "compliance-result") }
    IN  IF Q = {} THEN None ELSE doc[MinOf(Q)].text

DecodedOnce(v, t) ==
    \A ps \in Spellings(t) :
        LET body == TrimPieces(ps)
        IN  v = Concat([i \in DOMAIN body |-> PieceDecoded(body[i])])

HostAddress(doc, h) ==
    LET T == { i \in 1..Len(doc) :
                 /\ IsAncestor(doc, h, i)
                 /\ HasTag(doc[i], None, "tag")
                 /\ AttrText(doc[i], "name") = HostIpKey
                 /\ doc[i].text # None
                 /\ doc[i].text # EmptyStr }
    IN  IF AttrText(doc[h], "name") # EmptyStr THEN AttrText(doc[h], "name")
        ELSE IF T # {} THEN doc[MinOf(T)].text
        ELSE EmptyStr

\* C9: every row of the primary path carries the address of its item's host
C9_HostAddress ==
    (AtRows /\ via[k] = "primary") =>
        \A n \in DOMAIN rows :
            Field(rows[n], "IP Address") = HostAddress(tree, HostOf(tree, RowItems[n]))

\* a host without a name whose first host-ip tag has no text: both its
\* items carry the text of the second one
C9_Witness ==
    /\ AtRows
    /\ via[k] = "primary"
    /\ \E h \in HostsBelowRoot(tree) :
          /\ AttrText(tree[h], "name") = EmptyStr
          /\ \E a, b \in 1..Len(tree) :
                /\ a < b
                /\ tree[a].parent = tree[b].parent
                /\ IsAncestor(tree, h, a)
                /\ HasTag(tree[a], None, "tag") /\ HasTag(tree[b], None, "tag")
                /\ AttrText(tree[a], "name") = HostIpKey /\ tree[a].text = None
                /\ AttrText(tree[b], "name") = HostIpKey /\ tree[b].text = <<"x">>
          /\ \E m, n \in DOMAIN rows :
                /\ m # n
                /\ HostOf(tree, RowItems[m]) = h
                /\ HostOf(tree, RowItems[n]) = h
                /\ Field(rows[m], "IP Address") = <<"x">>
                /\ Field(rows[n], "IP Address") = <<"x">>

(***************************************************************************)
(* C10.  A document none of whose ReportItem elements lies under a         *)
(* ReportHost takes the flat fallback, which returns one row per           *)
(* ReportItem of the document, in document order, the base columns taken   *)
(* from the item and every compliance column empty.                        *)
(***************************************************************************)
CmColumns == { CmFields[i][1] : i \in DOMAIN CmFields }

FlatRowMatchesItem(doc, row, it) ==
    /\ Field(row, "Plugin ID") = AttrText(doc[it], "pluginID")
    /\ Field(row, "Plugin Family") = AttrText(doc[it], "pluginFamily")
    /\ Field(row, "Port") = AttrText(doc[it], "port")
    /\ Field(row, "Protocol") = AttrText(doc[it], "protocol")
    /\ Field(row, "Service") = AttrText(doc[it], "svc_name")
    /\ Field(row, "Severity") = SeverityLabel(AttrText(doc[it], "severity"))
    /\ Field(row, "Plugin Name") = PluginName(doc, it)
    /\ Field(row, "Risk Factor") = RiskFactor(doc, it)
    /\ \A c \in CmColumns : Field(row, c) = EmptyStr

\* C10: with no item under a host, the flat fallback returns one row per
\* item in document order, base columns from the item, compliance columns ""
C10_FlatFallbackOneRowPerItem ==
    (/\ InFile
     /\ fstate[k] = "rows-emitted"
     /\ ItemsUnder(tree, AllHosts(tree)) = {})
    => /\ via[k] = "fallback"
       /\ LET items == InDocOrder(tree, AllItems(tree))
          IN  /\ Len(rows) = Len(items)
              /\ \A n \in DOMAIN items : FlatRowMatchesItem(tree, rows[n], items[n])

\* two items under no host, next to a host
C10_Witness ==
    /\ InFile
    /\ fstate[k] = "rows-emitted"
    /\ via[k] = "fallback"
    /\ ItemsUnder(tree, AllHosts(tree)) = {}
    /\ AllHosts(tree) # {}
    /\ Len(rows) = 2


(***************************************************************************)
(* C11.  A run is aborted by a fatal input-discovery error before any      *)
(* parsing begins, or it processes every discovered file.                  *)
(***************************************************************************)
\* the entries of a directory that the search reaches and that are named
\* *.nessus, whatever the case of the letters
Discovered(inp) ==
    { i \in DOMAIN inp.entries :
        /\ inp.recursive \/ ~inp.entries[i].sub
        /\ IsNessusName(inp.entries[i].name) }

\* nonexistent path, a single file not ending in .nessus, a directory with
\* no .nessus file
FatalInput(inp) ==
    \/ ~inp.exists
    \/ inp.exists /\ inp.isfile /\ ~IsNessusName(inp.name)
    \/ inp.exists /\ ~inp.isfile /\ Discovered(inp) = {}

NothingParsedOrWritten ==
    /\ ~opened
    /\ out = <<>>
    /\ files = <<>>
    /\ fstate = <<>>
    /\ tree = <<>>
    /\ rows = <<>>
    /\ total_rows = 0
    /\ report = <<>>

\* C11: on a fatal input the run ends with status 1 and nothing parsed,
\* opened or written; on any other input it never ends by sys.exit(1); a
\* run that has ended was aborted by a fatal input or has processed every
\* discovered file.
C11_FatalDiscoveryAbortsBeforeParsing ==
    /\ pc \notin {"collect", "loop"} =>
         \/ pc = "exit1" /\ FatalInput(input)
         \/ pc = "done" /\ \A i \in DOMAIN files : fstate[i] \in {"rows-emitted", "zero-rows"}
    /\ FatalInput(input) =>
         /\ pc \in {"collect", "exit1"}
         /\ NothingParsedOrWritten
         /\ diag = (IF pc = "exit1" THEN 1 ELSE 0)
    /\ ~FatalInput(input) =>
         /\ pc # "exit1"
         /\ pc # "collect" =>
              /\ opened
              /\ Len(files) = (IF input.isfile THEN 1 ELSE Cardinality(Discovered(input)))
              /\ Len(fstate) = Len(files)
         /\ pc = "done" =>
              /\ \A i \in DOMAIN files : fstate[i] \in {"rows-emitted", "zero-rows"}
              /\ report = <<total_rows, Len(files)>>

\* the run has ended in the second file of three, the first file's rows
\* written, the third not begun
C11_Witness ==
    /\ pc = "crash"
    /\ ~FatalInput(input)
    /\ Len(files) = 3
    /\ k = 2
    /\ Len(out) > 1
    /\ fstate[3] = "unparsed"


(***************************************************************************)
(* C12 (as amended).  Each renderer fills five columns of the table from   *)
(* the row: the benchmark column from the check name composed with the     *)
(* benchmark profile, the next four from Compliance Info, Compliance       *)
(* Actual Value, Compliance Result and Compliance Solution, every value    *)
(* trimmed and a missing one empty; the last two columns stay blank.       *)
(***************************************************************************)
\* the text a row has under a column: empty where the column is missing or
\* the line did not reach it
ValueOf(r, col) ==
    LET at == { i \in DOMAIN r : r[i][1] = col }
    IN  IF at = {} THEN <<>>
        ELSE LET v == r[MinOf(at)][2] IN IF v = None THEN <<>> ELSE v

\* a name, followed by the profile in parentheses when there is one
Composed(name, profile) ==
    IF profile = <<>> THEN name ELSE name \o <<" ">> \o <<"(">> \o profile \o <<")">>

\* the cells of the table's line for row r, the benchmark cell named by nameCol
ExpectedCells(r, nameCol) ==
    << Composed(TrimOf(ValueOf(r, nameCol)),
                TrimOf(ValueOf(r, "Compliance Benchmark Profile"))),
       TrimOf(ValueOf(r, "Compliance Info")),
       TrimOf(ValueOf(r, "Compliance Actual Value")),
       TrimOf(ValueOf(r, "Compliance Result")),
       TrimOf(ValueOf(r, "Compliance Solution")),
       <<>>,
       <<>> >>

\* C12: every line of the table holds the trimmed check name with the
\* trimmed profile in parentheses, the four trimmed values, and two blanks;
\* a saved document has one line per row.
C12_TableCellsFromRowFields ==
    /\ Len(table) <= Len(csv.rows)
    /\ \A i \in DOMAIN table :
         table[i] = ExpectedCells(csv.rows[i], "Compliance Check Name")
    /\ wpc = "saved" => Len(table) = Len(csv.rows)

\* a line was made from a row with a profile and a check name that is not
\* its benchmark name
C12_Witness ==
    \E i \in DOMAIN table :
        /\ TrimOf(ValueOf(csv.rows[i], "Compliance Benchmark Profile")) # <<>>
        /\ TrimOf(ValueOf(csv.rows[i], "Compliance Check Name")) # <<>>
        /\ ValueOf(csv.rows[i], "Compliance Check Name")
             # ValueOf(csv.rows[i], "Compliance Benchmark Name")

\* C12 as first stated: the benchmark column holds the benchmark name
\* composed with the profile.
C12_Original ==
    \A i \in DOMAIN table :
        table[i] = ExpectedCells(csv.rows[i], "Compliance Benchmark Name")


(***************************************************************************)
(* C13.  Each file goes unparsed, parsed, namespace-resolved, rows-emitted  *)
(* or unparsed, parse-failed, zero-rows, by no other step; a file leaves   *)
(* unparsed only when every file before it is at its end with its rows     *)
(* written; every file of the list gets to its end.                        *)
(***************************************************************************)
FileStates ==
    {"unparsed", "parsed", "namespace-resolved", "rows-emitted",
     "parse-failed", "zero-rows"}

TerminalStates == {"rows-emitted", "zero-rows"}

FileSteps ==
    { <<"unparsed", "parsed">>,
      <<"parsed", "namespace-resolved">>,
      <<"namespace-resolved", "rows-emitted">>,
      <<"unparsed", "parse-failed">>,
      <<"parse-failed", "zero-rows">> }

\* a step of the run moves at most one file, along one of the two paths
OneFileStep ==
    /\ DOMAIN fstate \subseteq DOMAIN fstate'
    /\ \A i \in DOMAIN fstate' \ DOMAIN fstate : fstate'[i] = "unparsed"
    /\ \A i \in DOMAIN fstate :
         fstate'[i] # fstate[i] =>
            /\ <<fstate[i], fstate'[i]>> \in FileSteps
            /\ \A h \in DOMAIN fstate : h # i => fstate'[h] = fstate[h]

\* the lines of file h are written, at their place
RowsWritten(h) ==
    /\ Len(DataLines) >= Offset(h) + RowCount(h)
    /\ SubSeq(DataLines, Offset(h) + 1, Offset(h) + RowCount(h)) = LinesOfFile(files[h])

OneAfterAnother ==
    /\ DOMAIN fstate \in {DOMAIN files, {}}
    /\ \A i \in DOMAIN fstate :
         /\ fstate[i] \in FileStates
         /\ fstate[i] # "unparsed" =>
              \A h \in 1..(i - 1) : fstate[h] \in TerminalStates /\ RowsWritten(h)

\* C13: the files' states change only along the two paths, one file after
\* another, and every file of the list reaches rows-emitted or zero-rows
C13_FileStateMachine ==
    /\ []OneAfterAnother
    /\ [][OneFileStep]_vars
    /\ \A i \in 1..MaxFiles :
         (i \in DOMAIN fstate) ~> (i \in DOMAIN fstate /\ fstate[i] \in TerminalStates)

\* the run has ended with a file at namespace-resolved and a file unparsed
C13_Witness ==
    /\ pc = "crash"
    /\ \E i \in DOMAIN fstate :
          /\ i + 1 \in DOMAIN fstate
          /\ fstate[i] = "namespace-resolved"
          /\ fstate[i + 1] = "unparsed"


(***************************************************************************)
(* C14.  The flat fallback runs only when the traversal of the hosts gave   *)
(* no row.  The rows of a parsed document are all the traversal's or all   *)
(* the fallback's, and a document with an item under a host below the root *)
(* has no row of the fallback.                                             *)
(***************************************************************************)
\* the rows returned for the current file are those of the hosts' traversal
AllPrimary ==
    /\ via[k] = "primary"
    /\ Len(rows) = Cardinality(HostItemPairs(tree))
    /\ rows = PrimaryRows(tree, cm)

\* the rows returned for the current file are those of the flat fallback
AllFallback ==
    /\ via[k] = "fallback"
    /\ Len(rows) = Cardinality(AllItems(tree))
    /\ rows = FlatRows(tree)

NeverMixed ==
    (InFile /\ fstate[k] = "rows-emitted") =>
        IF HostItemPairs(tree) # {}
        THEN AllPrimary /\ rows # <<>>
        ELSE AllFallback /\ PrimaryRows(tree, cm) = <<>>

\* a step that makes a file's rows the fallback's starts where the
\* traversal has ended with no row
FallbackOnlyAfterNoRow ==
    \A i \in DOMAIN via :
        (via[i] # "fallback" /\ via'[i] = "fallback") =>
            /\ i = k
            /\ phase = "primary-done"
            /\ rows = <<>>
            /\ ItemsUnder(tree, HostsBelowRoot(tree)) = {}

\* C14: returned rows are all primary or all fallback, the fallback's only
\* for a document with no item under a host below the root, and the
\* fallback starts only from an empty list of rows
C14_FallbackOnlyWhenPrimaryEmpty ==
    /\ []NeverMixed
    /\ [][FallbackOnlyAfterNoRow]_vars

\* the fallback has given rows for a document that has a host: the host is
\* the root, or holds no item
C14_Witness ==
    /\ InFile
    /\ fstate[k] = "rows-emitted"
    /\ via[k] = "fallback"
    /\ AllHosts(tree) # {}
    /\ Len(rows) >= 2


(***************************************************************************)
(* C15.  In the flat fallback the n-th item of the document gets the name  *)
(* of the n-th ReportHost of the document, "" where the host has no name   *)
(* and "" where the document has fewer than n hosts; the fallback ends     *)
(* without an error whatever the numbers of hosts and items.               *)
(***************************************************************************)
\* C15: the fallback's n-th row has the name attribute of the n-th host in
\* document order, or "" past the last host, and the fallback can always
\* be taken where the traversal of the hosts gave no row
C15_FlatPairsByPosition ==
    /\ (InFile /\ fstate[k] = "rows-emitted" /\ via[k] = "fallback") =>
          LET hosts == InDocOrder(tree, AllHosts(tree))
              items == InDocOrder(tree, AllItems(tree))
          IN  /\ Len(rows) = Len(items)
              /\ \A n \in DOMAIN items :
                    /\ Field(rows[n], "Plugin ID") = AttrText(tree[items[n]], "pluginID")
                    /\ Field(rows[n], "IP Address") =
                          IF n <= Len(hosts) THEN AttrText(tree[hosts[n]], "name")
                          ELSE EmptyStr
    /\ (InFile /\ phase = "primary-done" /\ rows = <<>>) => ENABLED FlatFallback

\* more items than hosts: the first row has the host's name, the last none
C15_Witness ==
    /\ InFile
    /\ fstate[k] = "rows-emitted"
    /\ via[k] = "fallback"
    /\ Cardinality(AllItems(tree)) > Cardinality(AllHosts(tree))
    /\ Field(rows[1], "IP Address") # EmptyStr
    /\ Field(rows[Len(rows)], "IP Address") = EmptyStr


(***************************************************************************)
(* C16.  The compliance namespace of a document is resolved once, before   *)
(* any row is built: it is the URI of the last element, in document order, *)
(* whose tag has a URI containing "nessus.org/cm" or "compliance", and     *)
(* "http://www.nessus.org/cm" when no element has one.  Every lookup of    *)
(* every item uses that value.                                             *)
(***************************************************************************)
HasMarker(uri) ==
    \/ \E i \in DOMAIN uri :
          i + Len(MarkerNessusCm) - 1 <= Len(uri)
          /\ \A n \in DOMAIN MarkerNessusCm : uri[i + n - 1] = MarkerNessusCm[n]
    \/ \E i \in DOMAIN uri :
          i + Len(MarkerCompliance) - 1 <= Len(uri)
          /\ \A n \in DOMAIN MarkerCompliance : uri[i + n - 1] = MarkerCompliance[n]

\* the elements whose tag is in a namespace with a marker
Marked(doc) == { i \in DOMAIN doc : doc[i].uri # None /\ HasMarker(doc[i].uri) }

Resolved(doc) ==
    IF Marked(doc) = {}
    THEN <<"h","t","t","p",":","/","/","w","w","w",".","n","e","s","s","u","s",".",
           "o","r","g","/","c","m">>
    ELSE doc[MaxOf(Marked(doc))].uri

ResolvedIsUsed ==
    /\ (InFile /\ fstate[k] \in {"namespace-resolved", "rows-emitted"}) =>
          cm = Resolved(tree)
    /\ (AtRows /\ via[k] = "primary") =>
          \A n \in DOMAIN rows : \A f \in DOMAIN CmFields :
              LET t == CmSourceText(tree, RowItems[n], Resolved(tree), CmFields[f][2])
              IN  Field(rows[n], CmFields[f][1])
                    = IF t = None \/ t = EmptyStr THEN EmptyStr ELSE Unescape(Strip(t))

\* the namespace changes only in the step that resolves it, with no row built
ResolvedOnce ==
    cm' # cm =>
        /\ fstate[k] = "parsed"
        /\ fstate'[k] = "namespace-resolved"
        /\ rows = <<>>
        /\ rows' = <<>>

\* C16: the namespace is the last marked URI of the document or the
\* default, it is set in one step before any row is built, and every
\* compliance column of every row is looked up with it
C16_NamespaceResolvedOnce ==
    /\ []ResolvedIsUsed
    /\ [][ResolvedOnce]_vars

\* two items whose compliance-info elements are in two different marked
\* namespaces: the later one is resolved, and only the second item's is found
C16_Witness ==
    /\ AtRows
    /\ via[k] = "primary"
    /\ Len(rows) = 2
    /\ Cardinality({ tree[i].uri : i \in Marked(tree) }) = 2
    /\ cm # DefaultCm
    /\ Field(rows[1], "Compliance Info") = EmptyStr
    /\ Field(rows[2], "Compliance Info") = <<"b">>

=============================================================================
